---- MODULE Spec2Model ----
(***************************************************************************)
(* Log-ratio transformations of compositional tables (eis_toolkit,         *)
(* transformations/coda): alr_transform and its helper _alr_transform,     *)
(* the validators they call, clr_transform as exercised by clr_test.py,    *)
(* and a caller that builds a table and calls one transform on it.         *)
(*                                                                         *)
(* Numbers are exact: a cell of an input table is a rational, NaN, +inf or *)
(* -inf, and the natural logarithm of a positive rational other than 1 is  *)
(* kept as the symbolic value (1/r) * ln(n/d).  ln(1) is the number 0.     *)
(* Div and Log are defined on these values and on no others.               *)
(***************************************************************************)
EXTENDS Integers, Sequences, FiniteSets, TLC

(***************************************************************************)
(* Bounds of the model.                                                    *)
(***************************************************************************)
\* how many cells the caller overwrites before calling a transform
MaxEdits == 2
\* the denominator index idx ranges over -MaxIdx .. MaxIdx
MaxIdx == 5

(***************************************************************************)
(* Numbers.                                                                *)
(***************************************************************************)
RECURSIVE Gcd(_, _)
Gcd(a, b) == IF b = 0 THEN a ELSE Gcd(b, a % b)

Abs(x) == IF x < 0 THEN -x ELSE x

\* the rational n/d in lowest terms with a positive denominator (d # 0)
Rat(n, d) ==
    LET g == Gcd(Abs(n), Abs(d))
        s == IF d < 0 THEN -1 ELSE 1
    IN  [t |-> "num", n |-> s * (n \div g), d |-> s * (d \div g), r |-> 1]

Num(n) == [t |-> "num", n |-> n, d |-> 1, r |-> 1]
NaN    == [t |-> "nan", n |-> 0, d |-> 1, r |-> 1]
PosInf == [t |-> "inf", n |-> 1, d |-> 1, r |-> 1]
NegInf == [t |-> "inf", n |-> -1, d |-> 1, r |-> 1]
\* (n/d)^(1/r) for a rational n/d with d > 0: the root of 1 is 1, the root of 0
\* is 0, and a negative number has none
Root(n, d, r) ==
    LET q == Rat(n, d)
    IN  IF q.n = q.d THEN Num(1)
        ELSE IF q.n = 0 THEN Num(0)
        ELSE IF q.n < 0 THEN NaN
        ELSE [t |-> "root", n |-> q.n, d |-> q.d, r |-> r]
\* (1/r) * ln(n/d) for a positive rational n/d other than 1
LogOf(n, d, r) == [t |-> "log", n |-> n, d |-> d, r |-> r]

IsNull(x) == x.t = "nan"

RECURSIVE Pow(_, _)
Pow(x, k) == IF k = 0 THEN 1 ELSE x * Pow(x, k - 1)

IsInf(x) == x.t = "inf"
\* the sign of a rational or infinite value: -1, 0 or 1
Sign(x) == IF x.n > 0 THEN 1 ELSE IF x.n < 0 THEN -1 ELSE 0
\* -x for a rational, infinite or root value
Neg(x) == [x EXCEPT !.n = -x.n]

\* a / b as numpy divides two floats (IEEE 754).  a is a cell of an input
\* table: a rational, NaN, +inf or -inf; b is such a cell or the geometric mean
\* of a row, a root value (n/d)^(1/r) > 0.  A root value with n < 0 is the
\* negative of the root of -n/d.  Zero is +0.0.
Div(a, b) ==
    CASE a.t = "nan" \/ b.t = "nan" -> NaN
      [] a.t = "inf" /\ b.t = "inf" -> NaN
      [] a.t = "inf" /\ b.t = "num" -> IF b.n < 0 THEN Neg(a) ELSE a
      [] a.t = "inf" /\ b.t = "root" -> IF b.n < 0 THEN Neg(a) ELSE a
      [] a.t = "num" /\ b.t = "inf" -> Num(0)
      [] a.t = "num" /\ b.t = "num" ->
            IF b.n = 0
            THEN (IF a.n > 0 THEN PosInf ELSE IF a.n < 0 THEN NegInf ELSE NaN)
            ELSE Rat(a.n * b.d, a.d * b.n)
      [] a.t = "num" /\ b.t = "root" ->
            \* |a| / |b| = (|a|^r * d / |n|)^(1/r), with the sign of a * b
            LET q == Root(Pow(Abs(a.n), b.r) * b.d, Pow(a.d, b.r) * Abs(b.n), b.r)
            IN  IF Sign(a) * Sign(b) < 0 THEN Neg(q) ELSE q

\* np.log(x) for a rational, NaN, +-inf, a root value or a logarithm
\* (1/r) * ln(n/d), which is positive exactly when n > d; the logarithm of a
\* positive logarithm is kept as the symbolic value ln((1/r) * ln(n/d))
Log(x) ==
    CASE x.t = "nan" -> NaN
      [] x.t = "inf" -> IF x.n > 0 THEN PosInf ELSE NaN
      [] x.t = "root" -> IF x.n < 0 THEN NaN ELSE LogOf(x.n, x.d, x.r)
      [] x.t = "log" ->
            IF x.n > x.d THEN [t |-> "lnln", n |-> x.n, d |-> x.d, r |-> x.r] ELSE NaN
      [] x.t = "num" ->
            IF x.n = 0 THEN NegInf
            ELSE IF x.n < 0 THEN NaN
            ELSE IF x.n = x.d THEN Num(0)
            ELSE LogOf(x.n, x.d, 1)

(***************************************************************************)
(* Tables (pandas DataFrame): column labels, row labels, rows of cells.    *)
(***************************************************************************)
Range(s) == {s[i] : i \in 1..Len(s)}

\* position of the first occurrence of x in s (x is in s)
IndexOf(s, x) == CHOOSE i \in 1..Len(s) : s[i] = x /\ \A j \in 1..(i - 1) : s[j] # x

\* list.remove(x): s without the first occurrence of x (x is in s)
Remove(s, x) ==
    LET p == IndexOf(s, x)
    IN  [i \in 1..(Len(s) - 1) |-> IF i < p THEN s[i] ELSE s[i + 1]]

DataFrame(columns, index, data) == [columns |-> columns, index |-> index, data |-> data]

\* pd.DataFrame(array, columns=...): rows labelled 0, 1, ...
FromArray(array, columns) ==
    DataFrame(columns,
              [i \in 1..Len(array) |-> i - 1],
              [i \in 1..Len(array) |-> [j \in 1..Len(columns) |-> Num(array[i][j])]])

NRows(t) == Len(t.index)
NCols(t) == Len(t.columns)
Cells(t) == {t.data[i][j] : i \in 1..NRows(t), j \in 1..NCols(t)}

\* df.isnull().values.any()
AnyNull(t) == \E x \in Cells(t) : IsNull(x)

\* df[columns] with a list of labels: a new frame of those columns, in the list's order
Select(t, columns) ==
    DataFrame(columns, t.index,
              [i \in 1..NRows(t) |->
                  [j \in 1..Len(columns) |-> t.data[i][IndexOf(t.columns, columns[j])]]])

\* df[label]: the column as a Series over the frame's row labels
Column(t, label) ==
    [index |-> t.index,
     values |-> [i \in 1..NRows(t) |-> t.data[i][IndexOf(t.columns, label)]]]

\* frame.div(series, axis=0): every row is divided by the series value of its own label
DivAxis0(t, series) ==
    DataFrame(t.columns, t.index,
              [i \in 1..NRows(t) |->
                  [j \in 1..NCols(t) |->
                      Div(t.data[i][j], series.values[IndexOf(series.index, t.index[i])])]])

\* np.log(frame)
LogFrame(t) ==
    DataFrame(t.columns, t.index,
              [i \in 1..NRows(t) |-> [j \in 1..NCols(t) |-> Log(t.data[i][j])]])

(***************************************************************************)
(* Objects.  The heap is the sequence of the tables allocated so far; a    *)
(* reference is a position in it.                                          *)
(***************************************************************************)
New(heap, t) == [heap |-> Append(heap, t), ref |-> Len(heap) + 1]

(***************************************************************************)
(* The outcome of a call: the heap after it, "returned" with the reference *)
(* of the returned table or "raised" with the exception (value 0 when no   *)
(* table is returned), the local list `columns` and the denominator label  *)
(* as a list of at most one element (empty while unbound), and the steps   *)
(* the call went through.                                                  *)
(***************************************************************************)
Raised(heap, exc, columns, denominator, steps) ==
    [heap |-> heap, kind |-> "raised", value |-> 0, exc |-> exc,
     columns |-> columns, denominator |-> denominator, steps |-> steps]

Returned(heap, ref, columns, denominator, steps) ==
    [heap |-> heap, kind |-> "returned", value |-> ref, exc |-> "none",
     columns |-> columns, denominator |-> denominator, steps |-> steps]

(***************************************************************************)
(* Validators of eis_toolkit.utilities.checks.                             *)
(***************************************************************************)
\* check_column_index_in_dataframe(df, idx): idx addresses an existing column
check_column_index_in_dataframe(t, idx) == -NCols(t) <= idx /\ idx < NCols(t)

\* the check_compositional decorator: the exception it raises before the
\* decorated transform runs, "none" when it lets the call through
check_compositional(t) ==
    IF AnyNull(t) THEN "InvalidCompositionException" ELSE "none"

(***************************************************************************)
(* alr.py                                                                  *)
(***************************************************************************)
\* df.columns[idx] for an index in range; negative indices count from the end
ColumnAt(t, idx) == t.columns[IF idx < 0 THEN NCols(t) + idx + 1 ELSE idx + 1]

\* a variant that divides every row by the denominator of the first row
alr_first_row(heap, df, columns, denominator_column) ==
    LET sel    == New(heap, Select(heap[df], columns))
        den    == Column(heap[df], denominator_column)
        flat   == [index |-> den.index, values |-> [i \in 1..Len(den.values) |-> den.values[1]]]
        ratios == New(sel.heap, DivAxis0(sel.heap[sel.ref], flat))
    IN  New(ratios.heap, LogFrame(ratios.heap[ratios.ref]))

\* a variant that writes the log-ratios into the caller's table and returns it
alr_in_place(heap, df, columns, denominator_column) ==
    LET t   == heap[df]
        den == Column(t, denominator_column)
        lr  == LogFrame(DivAxis0(Select(t, columns), den))
        upd == DataFrame(t.columns, t.index,
                   [i \in 1..NRows(t) |->
                       [j \in 1..NCols(t) |->
                           IF t.columns[j] \in Range(columns)
                           THEN lr.data[i][IndexOf(columns, t.columns[j])]
                           ELSE t.data[i][j]]])
    IN  [heap |-> [heap EXCEPT ![df] = upd], ref |-> df]

\* _alr_transform(df, columns, denominator_column): three new frames, the last returned
_alr_transform(heap, df, columns, denominator_column) ==
    LET sel    == New(heap, Select(heap[df], columns))
        den    == Column(heap[df], denominator_column)
        ratios == New(sel.heap, DivAxis0(sel.heap[sel.ref], den))
    IN  New(ratios.heap, LogFrame(ratios.heap[ratios.ref]))

\* the tail of alr_transform once `columns` and the denominator are settled
alr_finish(heap, df, columns, denominator_column, steps) ==
    LET out == _alr_transform(heap, df, columns, denominator_column)
    IN  Returned(out.heap, out.ref, columns, <<denominator_column>>,
                 Append(steps, "_alr_transform"))

\* a variant with no bounds check that wraps idx onto an existing column
alr_wrap_index(heap, df, idx, keep_redundant_column) ==
    LET t == heap[df]
        s0 == <<"isnull", "columns">>
    IN  IF AnyNull(t) THEN Raised(heap, "InvalidCompositionException", <<>>, <<>>, <<"isnull">>)
        ELSE IF NCols(t) = 0
        THEN Raised(heap, "InvalidColumnIndexException", t.columns, <<>>, s0)
        ELSE LET den == t.columns[(idx % NCols(t)) + 1]
                 cols == IF keep_redundant_column THEN t.columns ELSE Remove(t.columns, den)
             IN  alr_finish(heap, df, cols, den, s0 \o <<"denominator">>)

\* a variant with the condition on keep_redundant_column inverted
alr_keep_inverted(heap, df, idx, keep_redundant_column) ==
    LET t == heap[df]
        s0 == <<"isnull", "columns", "check_index">>
    IN  IF AnyNull(t) THEN Raised(heap, "InvalidCompositionException", <<>>, <<>>, <<"isnull">>)
        ELSE IF ~check_column_index_in_dataframe(t, idx)
        THEN Raised(heap, "InvalidColumnIndexException", t.columns, <<>>, s0)
        ELSE LET den == ColumnAt(t, idx)
                 cols == IF keep_redundant_column THEN Remove(t.columns, den) ELSE t.columns
             IN  alr_finish(heap, df, cols, den, s0 \o <<"denominator">>)

\* a variant with the two column-list steps in the other order: remove, then append
alr_remove_then_append(heap, df, idx, keep_redundant_column) ==
    LET t == heap[df]
        s0 == <<"isnull", "columns", "check_index">>
    IN  IF AnyNull(t) THEN Raised(heap, "InvalidCompositionException", <<>>, <<>>, <<"isnull">>)
        ELSE IF ~check_column_index_in_dataframe(t, idx)
        THEN Raised(heap, "InvalidColumnIndexException", t.columns, <<>>, s0)
        ELSE LET den == ColumnAt(t, idx)
                 c1  == IF ~keep_redundant_column /\ den \in Range(t.columns)
                        THEN Remove(t.columns, den) ELSE t.columns
                 app == den \notin Range(c1)
                 c2  == IF app THEN Append(c1, den) ELSE c1
             IN  alr_finish(heap, df, c2, den,
                            s0 \o <<"denominator">> \o (IF app THEN <<"append">> ELSE <<>>))

\* the body of alr_transform (the function the decorators wrap)
alr_transform_wrapped(heap, df, idx, keep_redundant_column) ==
    LET t == heap[df]
    IN  IF AnyNull(t)
        THEN Raised(heap, "InvalidCompositionException", <<>>, <<>>, <<"isnull">>)
        ELSE
        LET columns == t.columns
            s0 == <<"isnull", "columns", "check_index">>
        IN  IF ~check_column_index_in_dataframe(t, idx)
            THEN Raised(heap, "InvalidColumnIndexException", columns, <<>>, s0)
            ELSE
            LET denominator_column == ColumnAt(t, idx)
                app == denominator_column \notin Range(columns)
                c1  == IF app THEN Append(columns, denominator_column) ELSE columns
                rem == ~keep_redundant_column /\ denominator_column \in Range(c1)
                c2  == IF rem THEN Remove(c1, denominator_column) ELSE c1
                s1  == s0 \o <<"denominator">>
                          \o (IF app THEN <<"append">> ELSE <<>>)
                          \o (IF rem THEN <<"remove">> ELSE <<>>)
            IN  alr_finish(heap, df, c2, denominator_column, s1)

\* a variant in which nothing validates the table for nulls
alr_no_null_check(heap, df, idx, keep_redundant_column) ==
    LET t == heap[df]
        s0 == <<"columns", "check_index">>
    IN  IF ~check_column_index_in_dataframe(t, idx)
        THEN Raised(heap, "InvalidColumnIndexException", t.columns, <<>>, s0)
        ELSE LET den == ColumnAt(t, idx)
                 cols == IF keep_redundant_column THEN t.columns ELSE Remove(t.columns, den)
             IN  alr_finish(heap, df, cols, den, s0 \o <<"denominator">>)

\* alr_transform as callers see it: check_compositional, then the body
alr_transform(heap, df, idx, keep_redundant_column) ==
    LET v == check_compositional(heap[df])
    IN  IF v # "none"
        THEN Raised(heap, v, <<>>, <<>>, <<"check_compositional">>)
        ELSE LET r == alr_transform_wrapped(heap, df, idx, keep_redundant_column)
             IN  [r EXCEPT !.steps = <<"check_compositional">> \o @]

\* inverse_alr(): not implemented
inverse_alr(heap) == Raised(heap, "NotImplementedError", <<>>, <<>>, <<>>)

(***************************************************************************)
(* clr.py, as clr_test.py and the specification describe it.               *)
(***************************************************************************)
RECURSIVE ProdN(_)
ProdN(row) == IF row = <<>> THEN 1 ELSE Head(row).n * ProdN(Tail(row))
RECURSIVE ProdD(_)
ProdD(row) == IF row = <<>> THEN 1 ELSE Head(row).d * ProdD(Tail(row))

\* the geometric mean of a row of non-negative cells, the n-th root of their
\* product: NaN with a NaN cell or with 0 * inf, +inf with an infinite cell
GeoMean(row) ==
    IF \E i \in 1..Len(row) : IsNull(row[i]) THEN NaN
    ELSE IF \E i \in 1..Len(row) : IsInf(row[i])
    THEN (IF \E i \in 1..Len(row) : row[i].n = 0 THEN NaN ELSE PosInf)
    ELSE Root(ProdN(row), ProdD(row), Len(row))

\* a variant that lets zero through: some cell is negative
AnyNegative(t) == \E x \in Cells(t) : x.t \in {"num", "inf"} /\ x.n < 0

\* some cell is zero or negative
AnyNonPositive(t) == \E x \in Cells(t) : x.t \in {"num", "inf"} /\ x.n <= 0

\* each row divided by its geometric mean, then the logarithm
_clr_transform(heap, df) ==
    LET t  == heap[df]
        gm == [index |-> t.index, values |-> [i \in 1..NRows(t) |-> GeoMean(t.data[i])]]
        ratios == New(heap, DivAxis0(t, gm))
    IN  New(ratios.heap, LogFrame(ratios.heap[ratios.ref]))

\* a variant that takes the logarithm of the cells without centring them
clr_uncentred(heap, df) ==
    LET t == heap[df]
        v == check_compositional(t)
    IN  IF AnyNonPositive(t)
        THEN Raised(heap, "NumericValueSignException", <<>>, <<>>, <<"check_sign">>)
        ELSE IF v # "none"
        THEN Raised(heap, v, <<>>, <<>>, <<"check_sign", "check_compositional">>)
        ELSE LET out == New(heap, LogFrame(t))
             IN  Returned(out.heap, out.ref, t.columns, <<>>,
                          <<"check_sign", "check_compositional", "_clr_transform">>)

\* clr_transform(df): step 1 rejects a zero or negative cell; a table it lets
\* through is rejected for a null cell; then the centred log-ratios
clr_transform(heap, df) ==
    LET t == heap[df]
        v == check_compositional(t)
    IN  IF AnyNonPositive(t)
        THEN Raised(heap, "NumericValueSignException", <<>>, <<>>, <<"check_sign">>)
        ELSE IF v # "none"
        THEN Raised(heap, v, <<>>, <<>>, <<"check_sign", "check_compositional">>)
        ELSE LET out == _clr_transform(heap, df)
             IN  Returned(out.heap, out.ref, t.columns, <<>>,
                          <<"check_sign", "check_compositional", "_clr_transform">>)

(***************************************************************************)
(* The tables of clr_test.py and the tables a caller starts from.          *)
(***************************************************************************)
ColumnsABCD == <<"a", "b", "c", "d">>
SINGLE_ROW_DATAFRAME == FromArray(<<(<<1, 1, 1, 2>>)>>, ColumnsABCD)
ONES_DATAFRAME_4x4 ==
    FromArray(<<(<<1, 1, 1, 1>>), <<1, 1, 1, 1>>, <<1, 1, 1, 1>>, <<1, 1, 1, 1>> >>, ColumnsABCD)
ZEROS_DATAFRAME_4x4 ==
    FromArray(<<(<<0, 0, 0, 0>>), <<0, 0, 0, 0>>, <<0, 0, 0, 0>>, <<0, 0, 0, 0>> >>, ColumnsABCD)
SAMPLE_DATAFRAME == FromArray(<<(<<65, 12, 18, 5>>), <<63, 16, 15, 6>> >>, ColumnsABCD)

\* df.iloc[:nr, :nc]: the first nr rows and the first nc columns
ILocHead(t, nr, nc) ==
    DataFrame(SubSeq(t.columns, 1, nc), SubSeq(t.index, 1, nr),
              [i \in 1..nr |-> SubSeq(t.data[i], 1, nc)])

\* the tables a caller may pass: the test tables and their leading columns,
\* with all their rows or with none
InputTables ==
    UNION {{ILocHead(t, nr, nc) : nr \in {0, NRows(t)}, nc \in 0..NCols(t)} :
              t \in {SINGLE_ROW_DATAFRAME, ONES_DATAFRAME_4x4, SAMPLE_DATAFRAME}}

\* the values a caller writes into a cell: null, zero, a negative number
EditValues == {NaN, Num(0), Num(-1)}

\* df.iloc[i, j] = v (positions from 0)
ILocSet(t, i, j, v) == [t EXCEPT !.data[i + 1][j + 1] = v]

(***************************************************************************)
(* The caller: it owns the table heap[1], overwrites some of its cells,    *)
(* and then calls one function on it.                                      *)
(***************************************************************************)
VARIABLES
    heap,     \* the tables allocated so far; heap[1] is the caller's table
    pc,       \* "build" until the call, "done" after it
    edits,    \* how many cells the caller has overwritten
    before,   \* the caller's table as it was when the call was made
    call,     \* the call made: function, idx, keep_redundant_column
    result    \* the outcome of the call

vars == <<heap, pc, edits, before, call, result>>

NoCall == [fn |-> "none", idx |-> 0, keep |-> FALSE]
NoResult == [kind |-> "none", value |-> 0, exc |-> "none",
             columns |-> <<>>, denominator |-> <<>>, steps |-> <<>>]
Outcome(r) == [kind |-> r.kind, value |-> r.value, exc |-> r.exc,
               columns |-> r.columns, denominator |-> r.denominator, steps |-> r.steps]

Init ==
    /\ \E t \in InputTables : heap = <<t>> /\ before = t
    /\ pc = "build"
    /\ edits = 0
    /\ call = NoCall
    /\ result = NoResult

\* df.iloc[i, j] = v
SetCell ==
    /\ pc = "build"
    /\ edits < MaxEdits
    /\ \E i \in 0..(NRows(heap[1]) - 1), j \in 0..(NCols(heap[1]) - 1), v \in EditValues :
          /\ heap' = [heap EXCEPT ![1] = ILocSet(@, i, j, v)]
          /\ before' = heap'[1]
    /\ edits' = edits + 1
    /\ UNCHANGED <<pc, call, result>>

Finish(fn, idx, keep, r) ==
    /\ heap' = r.heap
    /\ result' = Outcome(r)
    /\ call' = [fn |-> fn, idx |-> idx, keep |-> keep]
    /\ pc' = "done"
    /\ UNCHANGED <<edits, before>>

\* alr_transform(df, idx, keep_redundant_column)
CallAlr ==
    /\ pc = "build"
    /\ \E idx \in (-MaxIdx)..MaxIdx, keep \in BOOLEAN :
          Finish("alr_transform", idx, keep, alr_transform(heap, 1, idx, keep))

\* clr_transform(df)
CallClr ==
    /\ pc = "build"
    /\ Finish("clr_transform", 0, FALSE, clr_transform(heap, 1))

\* inverse_alr()
CallInverseAlr ==
    /\ pc = "build"
    /\ Finish("inverse_alr", 0, FALSE, inverse_alr(heap))

Next == SetCell \/ CallAlr \/ CallClr \/ CallInverseAlr

Spec == Init /\ [][Next]_vars

(***************************************************************************)
(* Notions the properties share.                                           *)
(***************************************************************************)
AlrDone == pc = "done" /\ call.fn = "alr_transform"
ClrDone == pc = "done" /\ call.fn = "clr_transform"
RaisedExc(e) == result.kind = "raised" /\ result.exc = e
Out == heap[result.value]
InRange(t, idx) == -NCols(t) <= idx /\ idx <= NCols(t) - 1
StrictlyPositive(t) == \A x \in Cells(t) : x.t = "num" /\ x.n > 0
\* 0-based position of the denominator for an index in range
DenPos(t, idx) == IF idx < 0 THEN NCols(t) + idx ELSE idx
\* the label of the denominator column for an index in range
DenLabel(t, idx) == t.columns[DenPos(t, idx) + 1]
HasZero(t) == \E x \in Cells(t) : x.t = "num" /\ x.n = 0
HasNonPositive(t) == \E x \in Cells(t) : x.t \in {"num", "inf"} /\ x.n <= 0
\* v is the natural logarithm of a / b, for positive integers a and b
IsLnOfRatio(v, a, b) ==
    IF a = b THEN v = Num(0)
    ELSE v.t = "log" /\ v.r = 1 /\ v.n > 0 /\ v.d > 0 /\ v.n * b = v.d * a
\* every cell of a row is the same
RowsConstant(t) ==
    \A i \in 1..NRows(t) : \A j, k \in 1..NCols(t) : t.data[i][j] = t.data[i][k]

(***************************************************************************)
(* C1.  On a null-free table with n columns alr_transform raises           *)
(* InvalidColumnIndexException exactly when idx is outside -n .. n-1; an   *)
(* index out of range returns no table, an index in range (negative ones   *)
(* included) never raises this error.                                      *)
(***************************************************************************)
C1_IndexOutOfBounds ==
    (AlrDone /\ ~AnyNull(before)) =>
        /\ RaisedExc("InvalidColumnIndexException") <=> ~InRange(before, call.idx)
        /\ ~InRange(before, call.idx) => result.value = 0

C1_Witness ==
    /\ AlrDone /\ ~AnyNull(before)
    /\ NCols(before) = 4 /\ call.idx = NCols(before)
    /\ RaisedExc("InvalidColumnIndexException")

(***************************************************************************)
(* C2.  On a table with a null cell alr_transform raises                   *)
(* InvalidCompositionException whatever idx and keep_redundant_column are, *)
(* before the denominator is resolved and before any frame is computed:    *)
(* _alr_transform is not called and no table is allocated.                 *)
(***************************************************************************)
C2_NullRejectedFirst ==
    (AlrDone /\ AnyNull(before)) =>
        /\ RaisedExc("InvalidCompositionException")
        /\ result.denominator = <<>>
        /\ "denominator" \notin Range(result.steps)
        /\ "_alr_transform" \notin Range(result.steps)
        /\ Len(heap) = 1

C2_Witness ==
    /\ AlrDone /\ AnyNull(before)
    /\ ~InRange(before, call.idx) /\ call.keep
    /\ RaisedExc("InvalidCompositionException")

(***************************************************************************)
(* C3.  On a strictly positive table and an index in range: without        *)
(* keep_redundant_column the denominator's label is not among the output   *)
(* columns; with it the denominator is an output column whose cells are    *)
(* all zero.                                                               *)
(***************************************************************************)
C3_RedundantColumn ==
    (AlrDone /\ StrictlyPositive(before) /\ InRange(before, call.idx)) =>
        /\ result.kind = "returned"
        /\ ~call.keep => DenLabel(before, call.idx) \notin Range(Out.columns)
        /\ call.keep =>
              /\ DenLabel(before, call.idx) \in Range(Out.columns)
              /\ \A i \in 1..NRows(Out) :
                    Out.data[i][IndexOf(Out.columns, DenLabel(before, call.idx))] = Num(0)

C3_Witness ==
    /\ AlrDone /\ StrictlyPositive(before) /\ InRange(before, call.idx)
    /\ call.keep /\ call.idx = 1 /\ NRows(before) = 2 /\ NCols(before) = 4
    /\ result.kind = "returned"
    /\ \A i \in 1..2 : Out.data[i][2] = Num(0) /\ Out.data[i][1] # Num(0)

(***************************************************************************)
(* C4.  On a null-free table with a zero cell (every column is the         *)
(* denominator or a numerator) alr_transform fails with an error and never *)
(* returns a table holding -inf, +inf or NaN.                              *)
(***************************************************************************)
C4_ZeroRejected ==
    (AlrDone /\ ~AnyNull(before) /\ HasZero(before)) =>
        /\ result.kind = "raised"
        /\ result.value = 0
        /\ \A k \in 2..Len(heap) : \A x \in Cells(heap[k]) : x.t \in {"num", "log"}

(***************************************************************************)
(* C5.  When no numerator column is left once the denominator is removed   *)
(* (a one-column table, keep_redundant_column false) alr_transform raises  *)
(* InvalidParameterValueException and returns no zero-column table.        *)
(***************************************************************************)
C5_TooFewColumns ==
    (AlrDone /\ ~AnyNull(before) /\ NCols(before) = 1
        /\ InRange(before, call.idx) /\ ~call.keep) =>
        RaisedExc("InvalidParameterValueException")

(***************************************************************************)
(* C6.  On a strictly positive table with at least two columns, an index   *)
(* in range and keep_redundant_column false, alr_transform returns a table *)
(* with the input's row labels, whose columns are the input's columns but  *)
(* the denominator, and whose cell at row r, column c is                   *)
(* ln(input[r, c] / input[r, denominator]).                                *)
(***************************************************************************)
C6_LogRatios ==
    (AlrDone /\ StrictlyPositive(before) /\ NCols(before) >= 2
        /\ InRange(before, call.idx) /\ ~call.keep) =>
        /\ result.kind = "returned"
        /\ Out.index = before.index
        /\ Len(Out.data) = NRows(before)
        /\ Out.columns = Remove(before.columns, DenLabel(before, call.idx))
        /\ \A i \in 1..NRows(before) :
              /\ Len(Out.data[i]) = NCols(before) - 1
              /\ \A j \in 1..Len(Out.columns) :
                    IsLnOfRatio(Out.data[i][j],
                                before.data[i][IndexOf(before.columns, Out.columns[j])].n,
                                before.data[i][DenPos(before, call.idx) + 1].n)

\* the example: SAMPLE_DATAFRAME with the default index
C6_Witness ==
    /\ AlrDone /\ before = SAMPLE_DATAFRAME /\ call.idx = -1 /\ ~call.keep
    /\ result.kind = "returned"
    /\ Out.columns = <<"a", "b", "c">>
    /\ Out.index = <<0, 1>>
    /\ Out.data = << <<LogOf(13, 1, 1), LogOf(12, 5, 1), LogOf(18, 5, 1)>>,
                     <<LogOf(21, 2, 1), LogOf(8, 3, 1), LogOf(5, 2, 1)>> >>

C8_ConstantRowsToZeros ==
    (ClrDone /\ StrictlyPositive(before) /\ RowsConstant(before)) =>
        /\ result.kind = "returned"
        /\ Out.columns = before.columns
        /\ Out.index = before.index
        /\ Len(Out.data) = NRows(before)
        /\ \A i \in 1..NRows(before) :
              /\ Len(Out.data[i]) = NCols(before)
              /\ \A j \in 1..NCols(before) : Out.data[i][j] = Num(0)

\* the test: the 4x4 table of ones gives the 4x4 table of zeros
C8_Witness ==
    /\ ClrDone /\ before = ONES_DATAFRAME_4x4
    /\ result.kind = "returned"
    /\ Out = ZEROS_DATAFRAME_4x4

(***************************************************************************)
(* C9.  alr_transform leaves the caller's table as it was (columns, their  *)
(* order, row labels, cells), whether it returns or raises, and a table it *)
(* returns is a new object, not the caller's.                              *)
(***************************************************************************)
C9_InputNotMutated ==
    AlrDone =>
        /\ heap[1] = before
        /\ result.kind = "returned" => (result.value # 1 /\ result.value \in 2..Len(heap))

C9_Witness ==
    /\ AlrDone /\ result.kind = "returned" /\ call.keep
    /\ NRows(before) > 0 /\ NCols(before) = 4
    /\ Out # before /\ Out.columns = before.columns

(***************************************************************************)
(* C10.  The denominator is always already in the list built from the      *)
(* table's columns, so alr_transform never appends it; the output columns  *)
(* keep the input's order: the input's columns with keep_redundant_column, *)
(* the input's columns with only the denominator deleted without it.       *)
(***************************************************************************)
C10_ColumnOrderKept ==
    AlrDone =>
        /\ "append" \notin Range(result.steps)
        /\ result.kind = "returned" =>
              /\ InRange(before, call.idx)
              /\ Out.columns = result.columns
              /\ call.keep => Out.columns = before.columns
              /\ ~call.keep =>
                    Out.columns = Remove(before.columns, DenLabel(before, call.idx))

C10_Witness ==
    /\ AlrDone /\ result.kind = "returned"
    /\ call.keep /\ call.idx = -3 /\ NCols(before) = 4
    /\ result.denominator = <<"b">>
    /\ Out.columns = <<"a", "b", "c", "d">>
====
